---- MODULE Spec2Model ----
(***************************************************************************)
(* State-machine model of the support-router chatbot:                      *)
(*   src/enhanced_chatbot.py      EnhancedDepartmentRouterChatbot          *)
(*   src/enhanced_backend_api.py  the Flask handlers and the registry      *)
(* Text is modelled as a sequence of one-character strings so that the     *)
(* string operations of the code (strip, lower, "in", the email regex)     *)
(* are computed, not assumed.                                              *)
(***************************************************************************)
EXTENDS Integers, Sequences, FiniteSets, TLC

VARIABLES chatbot_sessions, uuid_counter, http_request, http_response,
          external_calls, workflow_calls, handled_in, mail_requests,
          workers, unregistered

vars == <<chatbot_sessions, uuid_counter, http_request, http_response,
          external_calls, workflow_calls, handled_in, mail_requests,
          workers, unregistered>>

-----------------------------------------------------------------------------
(* Bounds of the model.                                                    *)

\* longest turn log a request is still accepted on
MaxTurns == 12
\* number of uuid4 values the handlers may draw (chat line 66, reset lines
\* 122 and 779); the one each constructor draws at line 40 is not counted
MaxUuid == 1
\* number of times the composer may be called within one workflow run
MaxComposerCalls == 2
\* longest turn log a request is still accepted on in SessionsSpec
MaxSessionTurns == 8
\* longest turn log a request is still accepted on in ConcurrentSpec
MaxConcurrentTurns == 4

-----------------------------------------------------------------------------
(* Text.                                                                   *)

UpperCase == <<"A","B","C","D","E","F","G","H","I","J","K","L","M",
               "N","O","P","Q","R","S","T","U","V","W","X","Y","Z">>
LowerCase == <<"a","b","c","d","e","f","g","h","i","j","k","l","m",
               "n","o","p","q","r","s","t","u","v","w","x","y","z">>
Digits == {"0","1","2","3","4","5","6","7","8","9"}
Whitespace == {" ", "\t", "\n", "\r"}

\* the characters the regex class \w accepts
WordChars == {UpperCase[i] : i \in 1..26} \cup {LowerCase[i] : i \in 1..26}
             \cup Digits \cup {"_"}

LowerChar(c) ==
    IF \E i \in 1..26 : UpperCase[i] = c
    THEN LowerCase[CHOOSE i \in 1..26 : UpperCase[i] = c]
    ELSE c

\* str.lower()
lower(s) == [i \in 1..Len(s) |-> LowerChar(s[i])]

\* str.lstrip(), str.rstrip(), str.strip()
RECURSIVE lstrip(_)
lstrip(s) == IF s # <<>> /\ Head(s) \in Whitespace THEN lstrip(Tail(s)) ELSE s

RECURSIVE rstrip(_)
rstrip(s) ==
    IF s # <<>> /\ s[Len(s)] \in Whitespace THEN rstrip(SubSeq(s, 1, Len(s) - 1)) ELSE s

\* a strip that removes nothing
strip_nothing(s) == s

strip(s) == rstrip(lstrip(s))

\* the Python test  word in text
contains(text, word) ==
    \E i \in 0..(Len(text) - Len(word)) : SubSeq(text, i + 1, i + Len(word)) = word

AllIn(s, lo, hi, chars) == \A k \in lo..hi : s[k] \in chars

\* re.search(r'^[\w\.-]+@[\w\.-]+\.\w+$', s): the matched text, or <<>> when
\* there is no match.  The pattern is anchored at both ends; '$' also accepts
\* one trailing newline, which is then not part of group(0).
email_match(s) ==
    LET body == IF Len(s) > 0 /\ s[Len(s)] = "\n" THEN SubSeq(s, 1, Len(s) - 1) ELSE s
        n == Len(body)
        local == WordChars \cup {".", "-"}
        ok == \E at \in 2..(n - 3) : \E dot \in (at + 2)..(n - 1) :
                 /\ body[at] = "@"
                 /\ body[dot] = "."
                 /\ AllIn(body, 1, at - 1, local)
                 /\ AllIn(body, at + 1, dot - 1, local)
                 /\ AllIn(body, dot + 1, n, WordChars)
    IN  IF ok THEN body ELSE <<>>

-----------------------------------------------------------------------------
(* Inputs.                                                                 *)

MsgSure     == <<"S","u","r","e","!">>
MsgNo       == <<"N","o">>
MsgEmail    == <<" ","a","@","b",".","c","o">>
MsgBlank    == <<" ">>

\* the "message" field of a /api/chat body; MissingField: the body has none
MissingField == <<"<missing>">>
Messages == {MsgSure, MsgNo, MsgEmail}
MessageFields == Messages \cup {MsgBlank, MissingField}

\* python None
None == "<None>"

\* the uuid4 values, in the order the process draws them (uuid4 is modelled
\* as never repeating and never equal to an identifier a client makes up)
Uuid(n) == <<"uuid", n>>
Client(n) == <<"client", n>>

\* session identifiers a client makes up itself
ClientIds == {Client(1)}

-----------------------------------------------------------------------------
(* Python dictionaries: a function whose domain is the set of keys present. *)

EmptyDict == <<>>
Put(d, k, v) == (k :> v) @@ d
Get(d, k, default) == IF k \in DOMAIN d THEN d[k] ELSE default

\* JSON null inside a parsed model response
JsonNull == <<"<null>">>

-----------------------------------------------------------------------------
(* EnhancedDepartmentRouterChatbot: construction and configuration.         *)

workflow_steps == <<"name", "email", "company", "additional_details">>

\* self.departments: department name -> configured address (os.getenv of
\* the department's variable; None when the variable is not set, as
\* GENERAL_INQUIRY_EMAIL is not in the deployment modelled)
departments ==
    [Sales              |-> "SALES_EMAIL",
     Billing            |-> "BILLING_EMAIL",
     HR                 |-> "HR_EMAIL"] @@
    ("Technical Support" :> "SUPPORT_EMAIL") @@
    ("Customer Service"  :> "CUSTOMER_SERVICE_EMAIL") @@
    ("General Inquiry"   :> None)

\* __init__: the session state of a new chatbot, uuid being the uuid4 drawn.
\* instance is the identity of the object: the registry holds references,
\* and two chatbots in the same state are still two objects.
NewChatbot(uuid) ==
    [instance                   |-> uuid,
     chat_history               |-> <<>>,
     session_id                 |-> uuid,
     identified_department      |-> None,
     department_confidence      |-> 0,
     email_workflow_active      |-> FALSE,
     email_confirmation_pending |-> FALSE,
     original_user_question     |-> <<>>,
     email_data                 |-> EmptyDict,
     current_step               |-> 0]

-----------------------------------------------------------------------------
(* analyze_with_gemini.                                                     *)

\* what self.model.generate_content can do for the classifier prompt:
\* raise, answer with text holding no {...}, answer with text whose {...} is
\* not JSON, or answer with a JSON object
GoodAnalysis(dept, importance) ==
    [department |-> dept, confidence |-> 85, importance |-> importance,
     user_response |-> "answer", reason |-> "reason"]

ClassifierResponses ==
    { [kind |-> "exception"], [kind |-> "no_json"], [kind |-> "invalid_json"],
      [kind |-> "json", obj |-> GoodAnalysis("Billing", "High")],
      [kind |-> "json", obj |-> GoodAnalysis("Marketing", "Low")],
      [kind |-> "json", obj |-> [confidence |-> 85, user_response |-> "answer"]],
      [kind |-> "json", obj |-> [department |-> "Billing", user_response |-> "answer"]] }

UnparsedAnalysis ==
    [department |-> "General Inquiry", confidence |-> 50, importance |-> "Medium",
     user_response |-> "route to team", reason |-> "Unable to parse AI response"]

ErrorAnalysis ==
    [department |-> "General Inquiry", confidence |-> 50, importance |-> "Medium",
     user_response |-> "right team", reason |-> "Error"]

\* an analyze_with_gemini whose except block reports no confidence
analyze_with_gemini_zero_confidence(response) ==
    CASE response.kind = "json"         -> response.obj
      [] response.kind = "no_json"      -> UnparsedAnalysis
      [] response.kind = "invalid_json" -> ErrorAnalysis
      [] response.kind = "exception"    -> [ErrorAnalysis EXCEPT !.confidence = 0]

analyze_with_gemini(response) ==
    CASE response.kind = "json"         -> response.obj
      [] response.kind = "no_json"      -> UnparsedAnalysis
      [] response.kind = "invalid_json" -> ErrorAnalysis
      [] response.kind = "exception"    -> ErrorAnalysis

-----------------------------------------------------------------------------
(* generate_intelligent_email.                                              *)

\* an entry of the log of collaborator calls: what was called and what the
\* collaborator did
Call(fn, outcome) == <<fn, outcome>>

\* what self.model.generate_content can do for the email prompt
GoodEmailParts ==
    [subject |-> <<"ai subject">>, greeting |-> <<"ai greeting">>,
     paragraph1 |-> <<"ai paragraph 1">>, paragraph2 |-> <<"ai paragraph 2">>,
     closing |-> <<"ai closing">>]

ComposerResponses ==
    { [kind |-> "exception"], [kind |-> "no_json"], [kind |-> "invalid_json"],
      [kind |-> "json", obj |-> GoodEmailParts],
      [kind |-> "json", obj |-> Put(GoodEmailParts, "paragraph3", JsonNull)] }

\* the fallback email_parts of lines 275-282 and 285-292
FallbackEmailParts(cb) ==
    [subject    |-> <<"Support Request: ">> \o
                    SubSeq(cb.original_user_question, 1,
                           IF Len(cb.original_user_question) < 50
                           THEN Len(cb.original_user_question) ELSE 50),
     greeting   |-> <<"Dear ", cb.identified_department, " Team,">>,
     paragraph1 |-> <<"I am reaching out regarding the following matter:">>,
     paragraph2 |-> cb.original_user_question,
     paragraph3 |-> IF Get(cb.email_data, "additional_details", <<>>) # <<>>
                    THEN <<"Additional details: ">> \o cb.email_data["additional_details"]
                    ELSE <<>>,
     closing    |-> <<"Thank you for your assistance,">>]

\* a composer whose failure is not caught: no part is a string
email_parts_of_failure_propagates(cb, response) ==
    IF response.kind = "json" THEN response.obj ELSE [greeting |-> JsonNull]

email_parts_of(cb, response) ==
    IF response.kind = "json" THEN response.obj ELSE FallbackEmailParts(cb)

\* lines 295-319: the paragraphs joined into the body.  A part that is not
\* a string makes .strip() or '\n'.join raise.
BodyKeys(parts) ==
    {"greeting", "paragraph1", "paragraph2", "paragraph3", "closing", "signature_name"}
    \cup (IF "signature_name" \in DOMAIN parts THEN {"signature_contact"} ELSE {})

body_raises(parts) == \E k \in BodyKeys(parts) \cap DOMAIN parts : parts[k] = JsonNull

Paragraph(parts, k) ==
    IF strip(Get(parts, k, <<>>)) # <<>> THEN <<strip(parts[k]), <<>>>> ELSE <<>>

lower_company(cb) == lower(Get(cb.email_data, "company", <<>>))

body_paragraphs(cb, parts) ==
    <<Get(parts, "greeting", <<"Dear Team,">>), <<>>>>
    \o Paragraph(parts, "paragraph1") \o Paragraph(parts, "paragraph2")
    \o Paragraph(parts, "paragraph3")
    \o <<Get(parts, "closing", <<"Best regards,">>)>>
    \o (IF "signature_name" \in DOMAIN parts
        THEN <<parts["signature_name"]>> \o
             (IF "signature_contact" \in DOMAIN parts
              THEN <<parts["signature_contact"]>> ELSE <<>>)
        ELSE <<Get(cb.email_data, "name", <<"User">>)>> \o
             (IF Get(cb.email_data, "company", <<>>) # <<>>
                 /\ lower_company(cb) # <<"i","n","d","i","v","i","d","u","a","l">>
              THEN <<cb.email_data["company"]>> ELSE <<>>))

\* _create_department_email_html / _create_user_preview_html: the template
\* and what is put into it
email_html(template, subject, body) ==
    [template |-> template, subject |-> subject, body |-> body]

\* lines 216-232: what the prompt of the composer is filled with
email_prompt(cb) ==
    [department         |-> cb.identified_department,
     name               |-> Get(cb.email_data, "name", None),
     email              |-> Get(cb.email_data, "email", None),
     company            |-> Get(cb.email_data, "company", None),
     question           |-> cb.original_user_question,
     additional_details |-> Get(cb.email_data, "additional_details", <<>>),
     importance         |-> Get(cb.email_data, "importance", "Medium")]

\* a call of collaborator fn together with the argument it was given
CallWith(fn, outcome, argument) == <<fn, outcome, argument>>

\* a call of collaborator fn that was given argument and returned result
CallReturning(fn, outcome, argument, result) == <<fn, outcome, argument, result>>

\* the whole of generate_intelligent_email on chatbot cb:
\* [raised, cb, html, calls]
generate_intelligent_email(cb, response) ==
    LET parts == email_parts_of(cb, response)
        calls == <<CallWith("generate_intelligent_email", response.kind,
                            email_prompt(cb))>>
    IN  IF body_raises(parts)
        THEN [raised |-> TRUE, cb |-> cb, html |-> None, calls |-> calls]
        ELSE LET subject == Get(parts, "subject", <<"New Inquiry">>)
                 body    == body_paragraphs(cb, parts)
                 data    == Put(Put(Put(cb.email_data,
                               "department_email", email_html("department", subject, body)),
                               "user_preview", email_html("user_preview", subject, body)),
                               "subject", subject)
             IN  [raised |-> FALSE,
                  cb     |-> [cb EXCEPT !.email_data = data],
                  html   |-> email_html("user_preview", subject, body),
                  calls  |-> calls]

-----------------------------------------------------------------------------
(* send_email_to_department.                                                *)

\* what requests.post to the mail API can do
PostOutcomes == {"ok", "http_error", "exception"}
ResendKeys == {TRUE, FALSE}

\* a request addressed to the sales team whatever the department
post_request_to_sales(cb, html) ==
    [to       |-> departments["Sales"],
     subject  |-> Get(cb.email_data, "subject",
                      <<"New Request - ", cb.identified_department>>),
     html     |-> Get(cb.email_data, "department_email", html),
     reply_to |-> Get(cb.email_data, "email", <<None>>)]

\* the JSON posted to the mail API
post_request(cb, html) ==
    [to       |-> departments[cb.identified_department],
     subject  |-> Get(cb.email_data, "subject",
                      <<"New Request - ", cb.identified_department>>),
     html     |-> Get(cb.email_data, "department_email", html),
     reply_to |-> Get(cb.email_data, "email", <<None>>)]

\* a dispatcher without response.raise_for_status()
send_email_to_department_no_status_check(cb, html, resend_key, post_outcome) ==
    IF ~resend_key
    THEN [sent |-> FALSE, posted |-> <<>>,
          calls |-> <<Call("send_email_to_department", "no api key")>>]
    ELSE IF cb.identified_department \notin DOMAIN departments
    THEN [sent |-> FALSE, posted |-> <<>>,
          calls |-> <<Call("send_email_to_department", "unknown department")>>]
    ELSE IF departments[cb.identified_department] = None
    THEN [sent |-> TRUE, posted |-> <<post_request(cb, html)>>,
          calls |-> <<Call("send_email_to_department", "no address")>>]
    ELSE [sent |-> post_outcome # "exception", posted |-> <<post_request(cb, html)>>,
          calls |-> <<Call("send_email_to_department", post_outcome)>>]

\* [sent, calls, posted]: every failure is caught and gives sent = FALSE.
\* A request without a recipient address is refused by the mail API.
send_email_to_department(cb, html, resend_key, post_outcome) ==
    IF ~resend_key
    THEN [sent |-> FALSE, posted |-> <<>>,
          calls |-> <<Call("send_email_to_department", "no api key")>>]
    ELSE IF cb.identified_department \notin DOMAIN departments
    THEN [sent |-> FALSE, posted |-> <<>>,
          calls |-> <<Call("send_email_to_department", "unknown department")>>]
    ELSE IF departments[cb.identified_department] = None
    THEN [sent |-> FALSE, posted |-> <<post_request(cb, html)>>,
          calls |-> <<Call("send_email_to_department", "no address")>>]
    ELSE [sent |-> post_outcome = "ok", posted |-> <<post_request(cb, html)>>,
          calls |-> <<Call("send_email_to_department", post_outcome)>>]

-----------------------------------------------------------------------------
(* process_workflow_step.                                                   *)

\* the words that empty the additional_details slot (line 186)
NoDetails == { <<"n","o","n","e">>, <<"n","/","a">>, <<"n","o">> }

\* the value line 186 stores
details_value(user_input) ==
    IF lower(user_input) \notin NoDetails THEN strip(user_input) ELSE <<>>

\* a slot that keeps the value an earlier run gave it
SetSlot_keeps_earlier_value(cb, slot, value) ==
    [cb EXCEPT !.email_data = Put(cb.email_data, slot, Get(cb.email_data, slot, value))]

SetSlot(cb, slot, value) == [cb EXCEPT !.email_data = Put(cb.email_data, slot, value)]

\* a step counter that passes over the next step
NextStep_passes_over(cb) == [cb EXCEPT !.current_step = cb.current_step + 2]

NextStep(cb) == [cb EXCEPT !.current_step = cb.current_step + 1]

StepResult(cb, response) ==
    [raised |-> FALSE, cb |-> cb, calls |-> <<>>, posted |-> <<>>,
     result |-> [response |-> response, complete |-> FALSE]]

StepRaised(cb, calls) ==
    [raised |-> TRUE, cb |-> cb, calls |-> calls, posted |-> <<>>, result |-> EmptyDict]

\* lines 185-205: store the details, compose, dispatch, leave the workflow
additional_details_step(cb, user_input, composer_response, resend_key, post_outcome) ==
    LET cb1  == SetSlot(cb, "additional_details", details_value(user_input))
        gen  == generate_intelligent_email(cb1, composer_response)
        send == send_email_to_department(gen.cb, gen.html, resend_key, post_outcome)
    IN  IF gen.raised
        THEN StepRaised(gen.cb, gen.calls)
        ELSE [raised |-> FALSE,
              cb     |-> [gen.cb EXCEPT !.email_workflow_active = FALSE],
              calls  |-> gen.calls \o send.calls,
              posted |-> send.posted,
              result |-> [response   |-> IF send.sent THEN "forwarded" ELSE "not sent",
                          email_html |-> gen.html,
                          complete   |-> TRUE,
                          email_sent |-> send.sent]]

\* an email step that advances whatever the input
email_step_always_advances(cb, user_input) ==
    LET email == email_match(strip(user_input))
    IN  IF email # <<>>
        THEN StepResult(NextStep(SetSlot(cb, "email", email)), "ask company")
        ELSE StepResult(NextStep(cb), "ask valid email")

\* lines 155-171
email_step(cb, user_input) ==
    LET email == email_match(strip(user_input))
    IN  IF email # <<>>
        THEN StepResult(NextStep(SetSlot(cb, "email", email)), "ask company")
        ELSE StepResult(cb, "ask valid email")

\* a process_workflow_step whose company step overwrites the name slot
process_workflow_step_wrong_slot(cb, user_input, composer_response, resend_key, post_outcome) ==
    IF cb.current_step \notin 0..(Len(workflow_steps) - 1)
    THEN StepRaised(cb, <<>>)
    ELSE LET current_step_name == workflow_steps[cb.current_step + 1]
         IN  CASE current_step_name = "name" ->
                    StepResult(NextStep(SetSlot(cb, "name", strip(user_input))), "ask email")
               [] current_step_name = "email" ->
                    email_step(cb, user_input)
               [] current_step_name = "company" ->
                    StepResult(NextStep(SetSlot(cb, "name", strip(user_input))),
                               "ask details")
               [] current_step_name = "additional_details" ->
                    additional_details_step(cb, user_input, composer_response,
                                            resend_key, post_outcome)

\* lines 143-210
process_workflow_step(cb, user_input, composer_response, resend_key, post_outcome) ==
    IF cb.current_step \notin 0..(Len(workflow_steps) - 1)
    THEN StepRaised(cb, <<>>)
    ELSE LET current_step_name == workflow_steps[cb.current_step + 1]
         IN  CASE current_step_name = "name" ->
                    StepResult(NextStep(SetSlot(cb, "name", strip(user_input))), "ask email")
               [] current_step_name = "email" ->
                    email_step(cb, user_input)
               [] current_step_name = "company" ->
                    StepResult(NextStep(SetSlot(cb, "company", strip(user_input))),
                               "ask details")
               [] current_step_name = "additional_details" ->
                    additional_details_step(cb, user_input, composer_response,
                                            resend_key, post_outcome)
               [] OTHER -> StepResult(cb, "something went wrong")

-----------------------------------------------------------------------------
(* process_message.                                                         *)

\* a turn of chat_history: the role (text and timestamp are not modelled)
Append2(history, a, b) == Append(Append(history, a), b)

AppendExchange(cb) ==
    [cb EXCEPT !.chat_history = Append2(cb.chat_history, "user", "assistant")]

AffirmativeWords ==
    { <<"y","e","s">>, <<"y","e","a","h">>, <<"s","u","r","e">>, <<"o","k">>,
      <<"o","k","a","y">>, <<"p","l","e","a","s","e">>, <<"s","e","n","d">> }

\* a line 644 that compares the whole message with the words
is_affirmative_whole_message(user_message) ==
    lower(user_message) \in AffirmativeWords

\* line 644
is_affirmative(user_message) ==
    \E word \in AffirmativeWords : contains(lower(user_message), word)

Returned(cb, calls, posted, result) ==
    [raised |-> FALSE, cb |-> cb, calls |-> calls, posted |-> posted, result |-> result]

Raised(cb, calls) ==
    [raised |-> TRUE, cb |-> cb, calls |-> calls, posted |-> <<>>, result |-> EmptyDict]

\* lines 612-640
workflow_branch(cb, user_message, o) ==
    LET step == process_workflow_step(cb, user_message, o.composer, o.resend_key, o.post)
    IN  IF step.raised
        THEN Raised(step.cb, step.calls)
        ELSE LET cb1 == AppendExchange(step.cb)
             IN  Returned(cb1, step.calls, step.posted,
                    [bot_response    |-> step.result.response,
                     status          |-> IF step.result.complete THEN "email_complete"
                                         ELSE "collecting_info",
                     workflow_active |-> ~step.result.complete,
                     current_step    |-> cb1.current_step,
                     session_id      |-> cb1.session_id,
                     email_html      |-> Get(step.result, "email_html", None),
                     email_sent      |-> Get(step.result, "email_sent", FALSE),
                     department      |-> cb1.identified_department,
                     confidence      |-> cb1.department_confidence])

\* a confirmation branch that starts the workflow whatever the answer is
confirmation_branch_without_consent(cb, user_message) ==
    LET cb1 == AppendExchange([cb EXCEPT !.email_workflow_active = TRUE,
                                         !.email_confirmation_pending = FALSE,
                                         !.current_step = 0])
    IN  Returned(cb1, <<>>, <<>>,
           [bot_response    |-> "ask name",
            status          |-> "workflow_started",
            workflow_active |-> TRUE,
            current_step    |-> 0,
            session_id      |-> cb1.session_id,
            department      |-> cb1.identified_department,
            confidence      |-> cb1.department_confidence])

\* a confirmation branch whose decline forgets the classification
confirmation_branch_forgets_department(cb, user_message) ==
    IF is_affirmative(user_message)
    THEN LET cb1 == AppendExchange([cb EXCEPT !.email_workflow_active = TRUE,
                                              !.email_confirmation_pending = FALSE,
                                              !.current_step = 0])
         IN  Returned(cb1, <<>>, <<>>,
                [bot_response    |-> "ask name",
                 status          |-> "workflow_started",
                 workflow_active |-> TRUE,
                 current_step    |-> 0,
                 session_id      |-> cb1.session_id,
                 department      |-> cb1.identified_department,
                 confidence      |-> cb1.department_confidence])
    ELSE LET cb1 == AppendExchange([cb EXCEPT !.email_confirmation_pending = FALSE,
                                              !.identified_department = None,
                                              !.department_confidence = 0])
         IN  Returned(cb1, <<>>, <<>>,
                [bot_response    |-> "no problem",
                 status          |-> "normal",
                 workflow_active |-> FALSE,
                 session_id      |-> cb1.session_id,
                 department      |-> cb1.identified_department,
                 confidence      |-> cb1.department_confidence])

\* a confirmation branch whose decline leaves the confirmation pending
confirmation_branch_keeps_pending(cb, user_message) ==
    IF is_affirmative(user_message)
    THEN LET cb1 == AppendExchange([cb EXCEPT !.email_workflow_active = TRUE,
                                              !.email_confirmation_pending = FALSE,
                                              !.current_step = 0])
         IN  Returned(cb1, <<>>, <<>>,
                [bot_response    |-> "ask name",
                 status          |-> "workflow_started",
                 workflow_active |-> TRUE,
                 current_step    |-> 0,
                 session_id      |-> cb1.session_id,
                 department      |-> cb1.identified_department,
                 confidence      |-> cb1.department_confidence])
    ELSE LET cb1 == AppendExchange(cb)
         IN  Returned(cb1, <<>>, <<>>,
                [bot_response    |-> "no problem",
                 status          |-> "normal",
                 workflow_active |-> FALSE,
                 session_id      |-> cb1.session_id,
                 department      |-> cb1.identified_department,
                 confidence      |-> cb1.department_confidence])

\* a confirmation branch that starts the workflow and leaves the offer open
confirmation_branch_offer_stays_open(cb, user_message) ==
    IF is_affirmative(user_message)
    THEN LET cb1 == AppendExchange([cb EXCEPT !.email_workflow_active = TRUE,
                                              !.current_step = 0])
         IN  Returned(cb1, <<>>, <<>>,
                [bot_response    |-> "ask name",
                 status          |-> "workflow_started",
                 workflow_active |-> TRUE,
                 current_step    |-> 0,
                 session_id      |-> cb1.session_id,
                 department      |-> cb1.identified_department,
                 confidence      |-> cb1.department_confidence])
    ELSE LET cb1 == AppendExchange([cb EXCEPT !.email_confirmation_pending = FALSE])
         IN  Returned(cb1, <<>>, <<>>,
                [bot_response    |-> "no problem",
                 status          |-> "normal",
                 workflow_active |-> FALSE,
                 session_id      |-> cb1.session_id,
                 department      |-> cb1.identified_department,
                 confidence      |-> cb1.department_confidence])

\* lines 643-703
confirmation_branch(cb, user_message) ==
    IF is_affirmative(user_message)
    THEN LET cb1 == AppendExchange([cb EXCEPT !.email_workflow_active = TRUE,
                                              !.email_confirmation_pending = FALSE,
                                              !.current_step = 0])
         IN  Returned(cb1, <<>>, <<>>,
                [bot_response    |-> "ask name",
                 status          |-> "workflow_started",
                 workflow_active |-> TRUE,
                 current_step    |-> 0,
                 session_id      |-> cb1.session_id,
                 department      |-> cb1.identified_department,
                 confidence      |-> cb1.department_confidence])
    ELSE LET cb1 == AppendExchange([cb EXCEPT !.email_confirmation_pending = FALSE])
         IN  Returned(cb1, <<>>, <<>>,
                [bot_response    |-> "no problem",
                 status          |-> "normal",
                 workflow_active |-> FALSE,
                 session_id      |-> cb1.session_id,
                 department      |-> cb1.identified_department,
                 confidence      |-> cb1.department_confidence])

\* lines 705-774
KnowledgeOutcomes == {"exception", "found"}
SaveOutcomes == {"ok", "exception"}

\* search_knowledge_base (lines 587-606): the entries of the knowledge base that
\* match the query; none when the query raises, the exception being caught
search_knowledge_base(outcome) ==
    IF outcome = "exception" THEN <<>> ELSE <<"entry">>

NoKnowledge == "No relevant knowledge base entries found."

\* the join of the entries alone: the empty text when there are none
knowledge_context_without_sentinel(knowledge_results) ==
    IF knowledge_results # <<>> THEN "- entry" ELSE ""

\* lines 709-712: the entries as one text, or the sentinel when there are none
knowledge_context(knowledge_results) ==
    IF knowledge_results # <<>> THEN "- entry" ELSE NoKnowledge

normal_branch(cb, user_message, o) ==
    LET knowledge_results == search_knowledge_base(o.kb)
        c1  == <<Call("search_knowledge_base", o.kb)>>
        cb1 == [cb EXCEPT !.chat_history = Append(cb.chat_history, "user")]
        c2  == c1 \o <<Call("save_to_chroma", o.save_user)>>
        analysis == analyze_with_gemini(o.classifier)
        c3  == c2 \o <<CallReturning("analyze_with_gemini", o.classifier.kind,
                                     knowledge_context(knowledge_results), analysis)>>
        cb2 == [cb1 EXCEPT !.identified_department = analysis["department"]]
        cb3 == [cb2 EXCEPT !.department_confidence = analysis["confidence"],
                           !.original_user_question = user_message,
                           !.email_data = Put(cb2.email_data, "importance",
                                              Get(analysis, "importance", "Medium"))]
        bot_response == Get(analysis, "user_response", "help")
        cb4 == [cb3 EXCEPT !.email_confirmation_pending = TRUE,
                           !.chat_history = Append(cb3.chat_history, "assistant")]
        c4  == c3 \o <<Call("save_to_chroma", o.save_assistant)>>
    IN  IF o.save_user = "exception" THEN Raised(cb1, c2)
        ELSE IF "department" \notin DOMAIN analysis THEN Raised(cb1, c3)
        ELSE IF "confidence" \notin DOMAIN analysis THEN Raised(cb2, c3)
        ELSE IF bot_response = None THEN Raised(cb3, c3)
        ELSE IF o.save_assistant = "exception" THEN Raised(cb4, c4)
        ELSE Returned(cb4, c4, <<>>,
                [bot_response    |-> bot_response,
                 status          |-> "awaiting_confirmation",
                 workflow_active |-> FALSE,
                 session_id      |-> cb4.session_id,
                 department      |-> analysis["department"],
                 confidence      |-> analysis["confidence"]])

process_message(cb, user_message, o) ==
    IF cb.email_workflow_active THEN workflow_branch(cb, user_message, o)
    ELSE IF cb.email_confirmation_pending THEN confirmation_branch(cb, user_message)
    ELSE normal_branch(cb, user_message, o)

\* the phase of the conversation: which branch of process_message (lines
\* 612, 643, 705) and of process_workflow_step (line 145) takes the next message
Phase(cb) ==
    IF cb.email_workflow_active
    THEN IF cb.current_step \in 0..(Len(workflow_steps) - 1)
         THEN CASE workflow_steps[cb.current_step + 1] = "name" -> "COLLECTING_NAME"
                [] workflow_steps[cb.current_step + 1] = "email" -> "COLLECTING_EMAIL"
                [] workflow_steps[cb.current_step + 1] = "company" -> "COLLECTING_COMPANY"
                [] workflow_steps[cb.current_step + 1] = "additional_details" ->
                       "COLLECTING_DETAILS"
         ELSE "NO_STEP"
    ELSE IF cb.email_confirmation_pending THEN "AWAITING_EMAIL_CONFIRMATION"
    ELSE "NORMAL"

\* a reset_conversation that keeps the session identifier
reset_conversation_same_id(cb, uuid) ==
    [cb EXCEPT !.chat_history = <<>>,
               !.identified_department = None,
               !.department_confidence = 0,
               !.email_workflow_active = FALSE,
               !.email_confirmation_pending = FALSE,
               !.original_user_question = <<>>,
               !.email_data = EmptyDict,
               !.current_step = 0]

\* reset_conversation, uuid being the uuid4 drawn
reset_conversation(cb, uuid) ==
    [cb EXCEPT !.chat_history = <<>>,
               !.session_id = uuid,
               !.identified_department = None,
               !.department_confidence = 0,
               !.email_workflow_active = FALSE,
               !.email_confirmation_pending = FALSE,
               !.original_user_question = <<>>,
               !.email_data = EmptyDict,
               !.current_step = 0]

-----------------------------------------------------------------------------
(* The Flask handlers of enhanced_backend_api.py.                           *)

\* the "session_id" field of a request body that has none
NoSessionId == <<"absent", 0>>

\* what the collaborators do during one request
CreateOutcomes == {"ok", "exception"}

NoFailure ==
    [create |-> "ok", kb |-> "found", save_user |-> "ok",
     classifier |-> [kind |-> "exception"], save_assistant |-> "ok",
     composer |-> [kind |-> "exception"], resend_key |-> TRUE, post |-> "ok"]

\* the second save_to_chroma is reached when lines 734-735 find their keys
SecondSave(kb, cl) ==
    {[NoFailure EXCEPT !.kb = kb, !.classifier = cl, !.save_assistant = s2] :
       s2 \in IF {"department", "confidence"} \subseteq DOMAIN analyze_with_gemini(cl)
              THEN SaveOutcomes ELSE {"ok"}}

\* the collaborators a request on chatbot cb reaches, with all they can do
Outcomes(is_new, cb) ==
    IF cb.email_workflow_active
    THEN IF cb.current_step = Len(workflow_steps) - 1
         THEN {[NoFailure EXCEPT !.composer = c, !.resend_key = FALSE] :
                 c \in ComposerResponses}
              \cup {[NoFailure EXCEPT !.composer = c, !.post = p] :
                      c \in ComposerResponses, p \in PostOutcomes}
         ELSE {NoFailure}
    ELSE IF cb.email_confirmation_pending
    THEN {NoFailure}
    ELSE (IF is_new THEN {[NoFailure EXCEPT !.create = "exception"]} ELSE {})
         \cup {[NoFailure EXCEPT !.save_user = "exception"]}
         \cup UNION {SecondSave(kb, cl) :
                        kb \in KnowledgeOutcomes, cl \in ClassifierResponses}

\* the chatbot a /api/chat request with this session field reaches
Reached(session_field) ==
    IF session_field \in DOMAIN chatbot_sessions
    THEN chatbot_sessions[session_field]
    ELSE NewChatbot(None)

NoCalls ==
    [composer |-> 0, dispatcher |-> 0, given |-> <<>>, values |-> EmptyDict,
     urgency |-> None]

Count(calls, fn) == Cardinality({i \in 1..Len(calls) : calls[i][1] = fn})

\* the position of the first call of fn among calls
FirstOf(calls, fn) ==
    CHOOSE i \in 1..Len(calls) :
        calls[i][1] = fn /\ \A j \in 1..(i - 1) : calls[j][1] # fn

\* what a message gives the workflow, by the phase that takes it: the
\* confirmation, or the value of a slot
given_by(cb, user_message) ==
    CASE (Phase(cb) = "AWAITING_EMAIL_CONFIRMATION" /\ is_affirmative(user_message)) ->
             <<"confirmation">>
      [] Phase(cb) = "COLLECTING_NAME" -> <<"name">>
      [] (Phase(cb) = "COLLECTING_EMAIL" /\ email_match(strip(user_message)) # <<>>) ->
             <<"email">>
      [] Phase(cb) = "COLLECTING_COMPANY" -> <<"company">>
      [] Phase(cb) = "COLLECTING_DETAILS" -> <<"additional_details">>
      [] OTHER -> <<>>

\* the collaborator calls of the workflow run in progress, counted from the
\* affirmative confirmation that started it, what the user has given since
\* the classifier was last invoked, the texts given to the run in progress and the
\* urgency the classifier returned last
count_calls(before, cb, user_message, calls) ==
    LET given == (IF Count(calls, "analyze_with_gemini") > 0 THEN <<>> ELSE before.given)
                 \o given_by(cb, user_message)
        slot  == given_by(cb, user_message)
        urgency == IF Count(calls, "analyze_with_gemini") > 0
                   THEN Get(calls[FirstOf(calls, "analyze_with_gemini")][4],
                            "importance", "Medium")
                   ELSE before.urgency
    IN  IF ~cb.email_workflow_active /\ cb.email_confirmation_pending
           /\ is_affirmative(user_message)
        THEN [NoCalls EXCEPT !.given = given, !.urgency = urgency]
        ELSE [composer   |-> before.composer + Count(calls, "generate_intelligent_email"),
              dispatcher |-> before.dispatcher + Count(calls, "send_email_to_department"),
              given      |-> given,
              urgency    |-> urgency,
              values     |-> IF cb.email_workflow_active /\ slot # <<>>
                             THEN Put(before.values, slot[1], strip(user_message))
                             ELSE before.values]

\* the uuid4 values drawn so far by the handlers: all but the constructors'
handler_uuids ==
    uuid_counter - Cardinality(DOMAIN chatbot_sessions) - Cardinality(DOMAIN unregistered)

\* a get_chatbot that constructs a chatbot on every call
get_chatbot_always_new(session_id, uuid) ==
    [NewChatbot(uuid) EXCEPT !.session_id = session_id]

\* a get_chatbot that hands a new identifier a chatbot already registered
get_chatbot_shared(session_id, uuid) ==
    IF session_id \in DOMAIN chatbot_sessions
    THEN chatbot_sessions[session_id]
    ELSE IF DOMAIN chatbot_sessions # {}
    THEN [chatbot_sessions[CHOOSE other \in DOMAIN chatbot_sessions : TRUE]
            EXCEPT !.session_id = session_id]
    ELSE [NewChatbot(uuid) EXCEPT !.session_id = session_id]

\* get_chatbot: the chatbot registered for session_id, or a new one
get_chatbot(session_id, uuid) ==
    IF session_id \in DOMAIN chatbot_sessions
    THEN chatbot_sessions[session_id]
    ELSE [NewChatbot(uuid) EXCEPT !.session_id = session_id]

BadRequest(error) == [code |-> 400, error |-> error]
ServerError == [code |-> 500, success |-> FALSE]

\* POST /api/chat, lines 55-104
chat_within(max_turns, message_field, session_field, o) ==
  /\ http_request' = [endpoint |-> "chat", session_id |-> session_field,
                      message |-> message_field]
  /\ handled_in' = Phase(Reached(session_field))
  /\ IF message_field = MissingField
    THEN /\ http_response' = BadRequest("Message is required")
         /\ external_calls' = <<>>
         /\ mail_requests' = <<>>
         /\ UNCHANGED <<chatbot_sessions, uuid_counter, workflow_calls>>
    ELSE
    LET message    == strip(message_field)
        drawn      == IF session_field = NoSessionId THEN 1 ELSE 0
        session_id == IF session_field = NoSessionId THEN Uuid(uuid_counter + 1)
                      ELSE session_field
        is_new     == session_id \notin DOMAIN chatbot_sessions
    IN  IF message = <<>>
        THEN /\ handler_uuids + drawn <= MaxUuid
             /\ http_response' = BadRequest("Message cannot be empty")
             /\ external_calls' = <<>>
             /\ mail_requests' = <<>>
             /\ uuid_counter' = uuid_counter + drawn
             /\ UNCHANGED <<chatbot_sessions, workflow_calls>>
        ELSE IF is_new /\ o.create = "exception"
        THEN /\ handler_uuids + drawn <= MaxUuid
             /\ http_response' = ServerError
             /\ external_calls' = <<>>
             /\ mail_requests' = <<>>
             /\ uuid_counter' = uuid_counter + drawn
             /\ UNCHANGED <<chatbot_sessions, workflow_calls>>
        ELSE
        LET made    == drawn + (IF is_new THEN 1 ELSE 0)
            chatbot == get_chatbot(session_id, Uuid(uuid_counter + made))
            before  == IF is_new THEN NoCalls ELSE workflow_calls[session_id]
        IN  /\ handler_uuids + drawn <= MaxUuid
            /\ Len(chatbot.chat_history) + 2 <= max_turns
            /\ \E r \in {process_message(chatbot, message, o)} :
               \E counted \in {count_calls(before, chatbot, message, r.calls)} :
                  /\ counted.composer <= MaxComposerCalls
                  /\ chatbot_sessions' = (session_id :> r.cb) @@ chatbot_sessions
                  /\ workflow_calls' = (session_id :> counted) @@ workflow_calls
                  /\ uuid_counter' = uuid_counter + made
                  /\ external_calls' = r.calls
                  /\ mail_requests' = r.posted
                  /\ http_response' =
                       IF r.raised THEN ServerError
                       ELSE [code            |-> 200,
                             success         |-> TRUE,
                             status          |-> r.result.status,
                             response        |-> r.result.bot_response,
                             session_id      |-> r.result.session_id,
                             department      |-> r.result.department,
                             confidence      |-> r.result.confidence,
                             workflow_active |-> Get(r.result, "workflow_active", FALSE),
                             current_step    |-> Get(r.result, "current_step", 0),
                             email_html      |-> Get(r.result, "email_html", None),
                             email_sent      |-> Get(r.result, "email_sent", FALSE)]

chat(message_field, session_field, o) ==
    chat_within(MaxTurns, message_field, session_field, o)

\* POST /api/reset, lines 107-134
reset(session_field) ==
  /\ http_request' = [endpoint |-> "reset", session_id |-> session_field]
  /\ handled_in' = IF session_field \in DOMAIN chatbot_sessions
                   THEN Phase(chatbot_sessions[session_field]) ELSE "NO_SESSION"
  /\ IF session_field = NoSessionId
    THEN /\ http_response' = BadRequest("session_id is required")
         /\ external_calls' = <<>>
         /\ mail_requests' = <<>>
         /\ UNCHANGED <<chatbot_sessions, uuid_counter, workflow_calls>>
    ELSE /\ handler_uuids + 1 <= MaxUuid
         /\ uuid_counter' = uuid_counter + 1
         /\ external_calls' = <<>>
         /\ mail_requests' = <<>>
         /\ IF session_field \in DOMAIN chatbot_sessions
            THEN /\ chatbot_sessions' =
                      [chatbot_sessions EXCEPT ![session_field] =
                          reset_conversation(@, Uuid(uuid_counter + 1))]
                 /\ workflow_calls' = [workflow_calls EXCEPT ![session_field] = NoCalls]
            ELSE UNCHANGED <<chatbot_sessions, workflow_calls>>
         /\ http_response' =
               [code |-> 200, success |-> TRUE, new_session_id |-> Uuid(uuid_counter + 1)]

\* POST /api/history, lines 170-201
get_history(session_field) ==
    /\ http_request' = [endpoint |-> "history", session_id |-> session_field]
    /\ handled_in' = IF session_field \in DOMAIN chatbot_sessions
                     THEN Phase(chatbot_sessions[session_field]) ELSE "NO_SESSION"
    /\ http_response' =
          IF session_field = NoSessionId THEN BadRequest("session_id is required")
          ELSE IF session_field \in DOMAIN chatbot_sessions
          THEN [code |-> 200, success |-> TRUE,
                history |-> chatbot_sessions[session_field].chat_history,
                identified_department |->
                    chatbot_sessions[session_field].identified_department,
                session_id |-> chatbot_sessions[session_field].session_id]
          ELSE [code |-> 200, success |-> TRUE, history |-> <<>>,
                identified_department |-> None, session_id |-> None]
    /\ external_calls' = <<>>
    /\ mail_requests' = <<>>
    /\ UNCHANGED <<chatbot_sessions, uuid_counter, workflow_calls>>

-----------------------------------------------------------------------------
(* The specification: requests are handled one at a time.                   *)

\* the request threads of the server, and a thread that handles no request
Threads == {1, 2}
Idle == [pc |-> "idle"]

\* Spec: well-formed requests of the client sessions.  Every request names
\* its session and carries a message.
SessionIds == ClientIds

Init ==
    /\ chatbot_sessions = EmptyDict
    /\ workflow_calls = EmptyDict
    /\ uuid_counter = 0
    /\ http_request = [endpoint |-> "none"]
    /\ handled_in = "NO_SESSION"
    /\ http_response = [code |-> 0]
    /\ external_calls = <<>>
    /\ mail_requests = <<>>
    /\ workers = [t \in Threads |-> Idle]
    /\ unregistered = EmptyDict

Chat ==
    /\ \E m \in Messages, sf \in SessionIds :
          \E o \in Outcomes(sf \notin DOMAIN chatbot_sessions, Reached(sf)) :
              chat(m, sf, o)
    /\ UNCHANGED <<workers, unregistered>>

Reset ==
    /\ \E sf \in SessionIds : reset(sf)
    /\ UNCHANGED <<workers, unregistered>>

Next == Chat \/ Reset

Spec == Init /\ [][Next]_vars

\* SessionsSpec: the three routes, for two client sessions and for requests
\* that name no session, with request bodies that lack the message or hold a
\* blank one.  The collaborators do not fail, apart from the construction of
\* a chatbot.
SessionFields == {Client(1), Client(2), NoSessionId}

\* "Sure!" is a question, a confirmation, a name and a malformed address
SessionsMessageFields == {MsgSure, MsgBlank, MissingField}

SessionsOutcomes(is_new) ==
    {NoFailure} \cup (IF is_new THEN {[NoFailure EXCEPT !.create = "exception"]} ELSE {})

SessionsChat ==
    /\ \E m \in SessionsMessageFields, sf \in SessionFields :
          /\ Len(Reached(sf).chat_history) + 2 <= MaxSessionTurns
          /\ \E o \in SessionsOutcomes(sf \notin DOMAIN chatbot_sessions) : chat(m, sf, o)
    /\ UNCHANGED <<workers, unregistered>>

SessionsReset ==
    /\ \E sf \in SessionFields : reset(sf)
    /\ UNCHANGED <<workers, unregistered>>

SessionsHistory ==
    /\ \E sf \in SessionFields : get_history(sf)
    /\ UNCHANGED <<workers, unregistered>>

SessionsNext == SessionsChat \/ SessionsReset \/ SessionsHistory

SessionsSpec == Init /\ [][SessionsNext]_vars

\* ConcurrentSpec: the request threads of the server handle /api/chat
\* requests of one client session at the same time.  A thread can be
\* suspended between any two lines of get_chatbot, which takes no lock;
\* process_message runs here without interruption, and no collaborator fails.
ConcurrentMessages == {MsgSure, MsgNo}

sequential_vars == <<http_request, http_response, external_calls, workflow_calls,
                     handled_in, mail_requests>>

\* chat lines 58-73: a request with a message arrives at thread t
Receive(t) ==
    /\ workers[t].pc = "idle"
    /\ Client(1) \in DOMAIN chatbot_sessions
          => Len(chatbot_sessions[Client(1)].chat_history) + 2 <= MaxConcurrentTurns
    /\ \E m \in ConcurrentMessages :
          workers' = [workers EXCEPT ![t] =
                         [pc |-> "get_chatbot", session_id |-> Client(1),
                          message |-> strip(m), chatbot |-> None]]
    /\ UNCHANGED <<chatbot_sessions, unregistered, uuid_counter, sequential_vars>>

\* get_chatbot line 20
CheckRegistry(t) ==
    /\ workers[t].pc = "get_chatbot"
    /\ workers' = [workers EXCEPT ![t].pc =
                      IF workers[t].session_id \in DOMAIN chatbot_sessions
                      THEN "return" ELSE "construct"]
    /\ UNCHANGED <<chatbot_sessions, unregistered, uuid_counter, sequential_vars>>

\* get_chatbot lines 21-31: the chatbot constructed takes the place of the
\* one another thread has registered since line 20
Construct(t) ==
    /\ workers[t].pc = "construct"
    /\ LET session_id == workers[t].session_id
           chatbot == [NewChatbot(Uuid(uuid_counter + 1)) EXCEPT !.session_id = session_id]
       IN  /\ chatbot_sessions' = (session_id :> chatbot) @@ chatbot_sessions
           /\ unregistered' =
                 IF session_id \in DOMAIN chatbot_sessions
                 THEN (chatbot_sessions[session_id].instance :> chatbot_sessions[session_id])
                         @@ unregistered
                 ELSE unregistered
    /\ uuid_counter' = uuid_counter + 1
    /\ workers' = [workers EXCEPT ![t].pc = "return"]
    /\ UNCHANGED sequential_vars

\* get_chatbot line 33
ReturnChatbot(t) ==
    /\ workers[t].pc = "return"
    /\ workers' = [workers EXCEPT ![t].pc = "process_message",
                                  ![t].chatbot =
                                     chatbot_sessions[workers[t].session_id].instance]
    /\ UNCHANGED <<chatbot_sessions, unregistered, uuid_counter, sequential_vars>>

\* chat lines 80-96
chat_response(r) ==
    IF r.raised THEN ServerError
    ELSE [code            |-> 200,
          success         |-> TRUE,
          status          |-> r.result.status,
          response        |-> r.result.bot_response,
          session_id      |-> r.result.session_id,
          department      |-> r.result.department,
          confidence      |-> r.result.confidence,
          workflow_active |-> Get(r.result, "workflow_active", FALSE),
          current_step    |-> Get(r.result, "current_step", 0),
          email_html      |-> Get(r.result, "email_html", None),
          email_sent      |-> Get(r.result, "email_sent", FALSE)]

\* chat lines 77-104, on the chatbot get_chatbot returned to the thread
ProcessMessage(t) ==
    /\ workers[t].pc = "process_message"
    /\ LET session_id == workers[t].session_id
           registered == chatbot_sessions[session_id].instance = workers[t].chatbot
           chatbot    == IF registered THEN chatbot_sessions[session_id]
                         ELSE unregistered[workers[t].chatbot]
           before     == Get(workflow_calls, session_id, NoCalls)
       IN  /\ Len(chatbot.chat_history) + 2 <= MaxConcurrentTurns
           /\ \E r \in {process_message(chatbot, workers[t].message, NoFailure)} :
                 /\ chatbot_sessions' =
                       IF registered THEN [chatbot_sessions EXCEPT ![session_id] = r.cb]
                       ELSE chatbot_sessions
                 /\ unregistered' =
                       IF registered THEN unregistered
                       ELSE [unregistered EXCEPT ![workers[t].chatbot] = r.cb]
                 /\ workflow_calls' =
                       (session_id :> count_calls(before, chatbot, workers[t].message, r.calls))
                          @@ workflow_calls
                 /\ external_calls' = r.calls
                 /\ mail_requests' = r.posted
                 /\ http_response' = chat_response(r)
           /\ http_request' = [endpoint |-> "chat", session_id |-> session_id,
                               message |-> workers[t].message]
           /\ handled_in' = Phase(chatbot)
    /\ workers' = [workers EXCEPT ![t] = Idle]
    /\ UNCHANGED uuid_counter

ConcurrentNext ==
    \E t \in Threads :
        \/ Receive(t)
        \/ CheckRegistry(t)
        \/ Construct(t)
        \/ ReturnChatbot(t)
        \/ ProcessMessage(t)

ConcurrentSpec == Init /\ [][ConcurrentNext]_vars

-----------------------------------------------------------------------------
(* The properties of the conversation controller.                           *)

\* the request handled last named a registered session on /api/chat
HandledChat ==
    /\ http_request.endpoint = "chat"
    /\ http_request.session_id \in DOMAIN chatbot_sessions

\* the chatbot of the request handled last
Session == chatbot_sessions[http_request.session_id]

\* the last request called collaborator fn, which did outcome
Called(fn, outcome) ==
    \E i \in 1..Len(external_calls) :
        external_calls[i][1] = fn /\ external_calls[i][2] = outcome

Invoked(fn) == \E i \in 1..Len(external_calls) : external_calls[i][1] = fn

Slots == {"name", "email", "company", "additional_details"}

\* the slots of email_data that are filled, with their values
FilledSlots(cb) == [slot \in DOMAIN cb.email_data \cap Slots |-> cb.email_data[slot]]

\* text holds one of the tokens yes/yeah/sure/ok/okay/please/send, in any case
MatchesAffirmativeToken(text) ==
    \E word \in AffirmativeWords : \E i \in 1..Len(text) :
        /\ i + Len(word) - 1 <= Len(text)
        /\ lower(SubSeq(text, i, i + Len(word) - 1)) = word

\* text is local-part @ domain . tld, of word characters, dots and hyphens
IsEmailAddress(text) ==
    \E at \in 2..Len(text) : \E dot \in (at + 2)..(Len(text) - 1) :
        /\ text[at] = "@"
        /\ text[dot] = "."
        /\ \A i \in 1..(at - 1) : text[i] \in WordChars \cup {".", "-"}
        /\ \A i \in (at + 1)..(dot - 1) : text[i] \in WordChars \cup {".", "-"}
        /\ \A i \in (dot + 1)..Len(text) : text[i] \in WordChars

\* C1: in every session the turn log has even length and alternates user,
\* assistant: every process_message call appended one user turn and then one
\* assistant turn.
C1_TurnLogAlternates ==
    \A sid \in DOMAIN chatbot_sessions :
        LET log == chatbot_sessions[sid].chat_history
        IN  /\ Len(log) % 2 = 0
            /\ \A i \in 1..Len(log) :
                  log[i] = IF i % 2 = 1 THEN "user" ELSE "assistant"

\* C2: a reset of a registered session, in whatever phase, leaves it in NORMAL
\* with no workflow active and no confirmation pending, email_data and the
\* turn log empty, and a session identifier different from the one before;
\* the response of POST /api/reset carries that new identifier.
C2_ResetClearsSession ==
    [][\A sid \in DOMAIN chatbot_sessions :
          (http_request'.endpoint = "reset" /\ http_request'.session_id = sid)
          => /\ Phase(chatbot_sessions'[sid]) = "NORMAL"
             /\ ~chatbot_sessions'[sid].email_workflow_active
             /\ ~chatbot_sessions'[sid].email_confirmation_pending
             /\ chatbot_sessions'[sid].email_data = EmptyDict
             /\ chatbot_sessions'[sid].chat_history = <<>>
             /\ chatbot_sessions'[sid].session_id # chatbot_sessions[sid].session_id
             /\ http_response'.code = 200
             /\ http_response'.new_session_id = chatbot_sessions'[sid].session_id]_vars

\* a reset that found its session in the middle of the workflow
C2_Witness ==
    /\ http_request.endpoint = "reset"
    /\ http_request.session_id \in DOMAIN chatbot_sessions
    /\ handled_in = "COLLECTING_COMPANY"
    /\ Phase(Session) = "NORMAL"
    /\ http_response.new_session_id = Session.session_id

\* C3: when the classifier's remote call raised while a message was handled
\* in NORMAL, the session holds department "General Inquiry", confidence 50
\* and urgency Medium and is in AWAITING_EMAIL_CONFIRMATION; a reply that is
\* returned has the status it has when the classifier succeeds.
C3_ClassifierFailureFallsBack ==
    (HandledChat /\ handled_in = "NORMAL"
       /\ Called("analyze_with_gemini", "exception"))
    => /\ Session.identified_department = "General Inquiry"
       /\ Session.department_confidence = 50
       /\ Get(Session.email_data, "importance", None) = "Medium"
       /\ Phase(Session) = "AWAITING_EMAIL_CONFIRMATION"
       /\ http_response.code = 200 => http_response.status = "awaiting_confirmation"

\* a message answered with the fallback reply after the classifier raised
C3_Witness ==
    /\ HandledChat /\ handled_in = "NORMAL"
    /\ Called("analyze_with_gemini", "exception")
    /\ http_response.code = 200
    /\ http_response.response = "right team"
    /\ Phase(Session) = "AWAITING_EMAIL_CONFIRMATION"

\* C4: a message that holds an affirmative token, handled in
\* AWAITING_EMAIL_CONFIRMATION, leaves the session in COLLECTING_NAME
\* (workflow active, step 0, confirmation not pending) and is answered with
\* the prompt for the sender's name.
C4_AffirmativeStartsWorkflow ==
    (HandledChat /\ handled_in = "AWAITING_EMAIL_CONFIRMATION"
       /\ MatchesAffirmativeToken(http_request.message))
    => /\ Phase(Session) = "COLLECTING_NAME"
       /\ Session.email_workflow_active
       /\ Session.current_step = 0
       /\ ~Session.email_confirmation_pending
       /\ http_response.code = 200
       /\ http_response.status = "workflow_started"
       /\ http_response.response = "ask name"

\* "Sure!" has started the workflow
C4_Witness ==
    /\ HandledChat /\ handled_in = "AWAITING_EMAIL_CONFIRMATION"
    /\ http_request.message = MsgSure
    /\ Phase(Session) = "COLLECTING_NAME"
    /\ http_response.response = "ask name"

C6_EmailStepWaitsForAddress ==
    [][\A sid \in DOMAIN chatbot_sessions :
          (/\ http_request'.endpoint = "chat" /\ http_request'.session_id = sid
           /\ Phase(chatbot_sessions[sid]) = "COLLECTING_EMAIL")
          => IF IsEmailAddress(strip(http_request'.message))
             THEN /\ Phase(chatbot_sessions'[sid]) = "COLLECTING_COMPANY"
                  /\ Get(chatbot_sessions'[sid].email_data, "email", None)
                        = strip(http_request'.message)
             ELSE /\ Phase(chatbot_sessions'[sid]) = "COLLECTING_EMAIL"
                  /\ chatbot_sessions'[sid].email_data = chatbot_sessions[sid].email_data
      ]_vars

\* " a@b.co" has been stored as "a@b.co"
C6_Witness ==
    /\ HandledChat /\ handled_in = "COLLECTING_EMAIL"
    /\ http_request.message = MsgEmail
    /\ Phase(Session) = "COLLECTING_COMPANY"
    /\ Get(Session.email_data, "email", None) = <<"a", "@", "b", ".", "c", "o">>

\* the phase in which each slot is collected
SlotPhase ==
    [name |-> "COLLECTING_NAME", email |-> "COLLECTING_EMAIL",
     company |-> "COLLECTING_COMPANY", additional_details |-> "COLLECTING_DETAILS"]

\* C7: a slot receives a value only by a message handled in the phase of
\* that slot, and a request that invokes the Email Composer leaves all four
\* slots filled.
C7_SlotsFilledInTheirPhase ==
    [][\A sid \in DOMAIN chatbot_sessions' :
          /\ \A slot \in Slots :
                (/\ slot \in DOMAIN chatbot_sessions'[sid].email_data
                 /\ chatbot_sessions'[sid].email_data[slot]
                       # Get(Reached(sid).email_data, slot, None))
                => /\ http_request'.endpoint = "chat"
                   /\ http_request'.session_id = sid
                   /\ Phase(Reached(sid)) = SlotPhase[slot]
          /\ (http_request'.session_id = sid /\ Invoked("generate_intelligent_email")')
             => Slots \subseteq DOMAIN chatbot_sessions'[sid].email_data
      ]_vars

\* the composer has been invoked with the four slots filled
C7_Witness ==
    /\ HandledChat /\ handled_in = "COLLECTING_DETAILS"
    /\ Invoked("generate_intelligent_email")
    /\ Slots \subseteq DOMAIN Session.email_data

\* C8: a message handled in COLLECTING_DETAILS leaves the session in NORMAL,
\* with no workflow active and no confirmation pending.
C8_DetailsStepEndsInNormal ==
    (HandledChat /\ handled_in = "COLLECTING_DETAILS")
    => /\ Phase(Session) = "NORMAL"
       /\ ~Session.email_workflow_active
       /\ ~Session.email_confirmation_pending

\* C9: a workflow run that completes has invoked the Email Composer once and
\* the Email Dispatcher once since its affirmative confirmation, the composer
\* first, both in the request that completed it, whose reply carries the
\* dispatch outcome; a request handled in another phase invokes neither.
C9_ComposerAndDispatcherOncePerRun ==
    /\ (HandledChat /\ http_response.code = 200
          /\ http_response.status = "email_complete")
       => /\ workflow_calls[http_request.session_id].composer = 1
          /\ workflow_calls[http_request.session_id].dispatcher = 1
          /\ Len(external_calls) = 2
          /\ external_calls[1][1] = "generate_intelligent_email"
          /\ external_calls[2][1] = "send_email_to_department"
          /\ http_response.email_sent = (external_calls[2][2] = "ok")
    /\ (HandledChat /\ handled_in # "COLLECTING_DETAILS")
       => /\ ~Invoked("generate_intelligent_email")
          /\ ~Invoked("send_email_to_department")

ExternalCallFailed ==
    \E i \in 1..Len(external_calls) : external_calls[i][2] \in {"exception", "http_error"}

\* C11: a message during whose handling an external call (knowledge search,
\* conversation store, classifier, composer, mail API) failed is still
\* answered with a reply (code 200), not with an error.
C11_ExternalFailuresNeverPropagate ==
    (HandledChat /\ ExternalCallFailed) => http_response.code = 200

\* C16: a classifier response without a JSON object or with malformed JSON
\* gives department "General Inquiry", confidence 50 and urgency Medium, and
\* every classifier response, a JSON object lacking department or confidence
\* included, leaves the session in AWAITING_EMAIL_CONFIRMATION.
C16_UnparsableClassificationFallsBack ==
    /\ (HandledChat /\ handled_in = "NORMAL"
          /\ (Called("analyze_with_gemini", "no_json")
                \/ Called("analyze_with_gemini", "invalid_json")))
       => /\ Session.identified_department = "General Inquiry"
          /\ Session.department_confidence = 50
          /\ Get(Session.email_data, "importance", None) = "Medium"
    /\ (HandledChat /\ handled_in = "NORMAL" /\ Invoked("analyze_with_gemini"))
       => Phase(Session) = "AWAITING_EMAIL_CONFIRMATION"

\* the phase that follows each phase of the workflow
NextPhase ==
    [COLLECTING_NAME    |-> "COLLECTING_EMAIL",
     COLLECTING_EMAIL   |-> "COLLECTING_COMPANY",
     COLLECTING_COMPANY |-> "COLLECTING_DETAILS",
     COLLECTING_DETAILS |-> "NORMAL"]

\* C17: a message handled in a phase of the workflow leaves the session in
\* the phase that follows it in the order COLLECTING_NAME, COLLECTING_EMAIL,
\* COLLECTING_COMPANY, COLLECTING_DETAILS, NORMAL; only in COLLECTING_EMAIL
\* may it leave the phase as it was.
C17_WorkflowPhasesInOrder ==
    (HandledChat /\ handled_in \in DOMAIN NextPhase)
    => \/ Phase(Session) = NextPhase[handled_in]
       \/ handled_in = "COLLECTING_EMAIL" /\ Phase(Session) = "COLLECTING_EMAIL"

\* C18: the identified department of every session is None or one of the
\* departments configured in self.departments.
C18_DepartmentIsConfigured ==
    \A sid \in DOMAIN chatbot_sessions :
        chatbot_sessions[sid].identified_department \in DOMAIN departments \cup {None}

\* C20: a message handled outside NORMAL leaves the identified department,
\* the confidence and the original question of the session as they were.
C20_ClassificationKeptOutsideNormal ==
    [][\A sid \in DOMAIN chatbot_sessions :
          (/\ http_request'.endpoint = "chat" /\ http_request'.session_id = sid
           /\ Phase(chatbot_sessions[sid]) # "NORMAL")
          => /\ chatbot_sessions'[sid].identified_department
                   = chatbot_sessions[sid].identified_department
             /\ chatbot_sessions'[sid].department_confidence
                   = chatbot_sessions[sid].department_confidence
             /\ chatbot_sessions'[sid].original_user_question
                   = chatbot_sessions[sid].original_user_question
      ]_vars

\* a declined offer has kept the classification
C20_Witness ==
    /\ HandledChat /\ handled_in = "AWAITING_EMAIL_CONFIRMATION"
    /\ http_request.message = MsgNo
    /\ Phase(Session) = "NORMAL"
    /\ Session.identified_department = "Billing"
    /\ Session.department_confidence = 85

C13_RegistryKeepsItsEntries ==
    [][/\ \A sid \in DOMAIN chatbot_sessions :
             /\ sid \in DOMAIN chatbot_sessions'
             /\ chatbot_sessions'[sid].instance = chatbot_sessions[sid].instance
       /\ DOMAIN chatbot_sessions' # DOMAIN chatbot_sessions
          => http_request'.endpoint = "chat"
      ]_vars

\* a reset has changed the session_id of a chatbot that is still registered
C13_Witness ==
    /\ http_request.endpoint = "reset"
    /\ http_request.session_id \in DOMAIN chatbot_sessions
    /\ Session.instance = Uuid(1)
    /\ Session.session_id # http_request.session_id

\* C14: two identifiers of the registry never hold the same chatbot object,
\* and a request leaves the chatbot of every identifier other than its own
\* as it was.
C14_SessionsDoNotInterfere ==
    [][/\ \A a \in DOMAIN chatbot_sessions' : \A b \in DOMAIN chatbot_sessions' :
             a # b => chatbot_sessions'[a].instance # chatbot_sessions'[b].instance
       /\ \A b \in DOMAIN chatbot_sessions :
             b # http_request'.session_id => chatbot_sessions'[b] = chatbot_sessions[b]
      ]_vars

\* client 1 has been reset while client 2 was in the workflow
C14_Witness ==
    /\ http_request.endpoint = "reset"
    /\ http_request.session_id = Client(1)
    /\ Client(1) \in DOMAIN chatbot_sessions
    /\ handled_in = "COLLECTING_NAME"
    /\ Client(2) \in DOMAIN chatbot_sessions
    /\ Phase(chatbot_sessions[Client(2)]) = "COLLECTING_EMAIL"

\* text holds nothing but whitespace
IsBlank(text) == \A i \in 1..Len(text) : text[i] \in Whitespace

\* C15: a /api/chat request whose message is missing or empty once stripped
\* is answered with code 400 and leaves the registry and every chatbot as
\* they were; a message handled in COLLECTING_EMAIL that is not an address is
\* answered (code 200) with the request for a valid address.
C15_ValidationFailuresChangeNothing ==
    [][/\ (/\ http_request'.endpoint = "chat"
           /\ \/ http_request'.message = MissingField
              \/ IsBlank(http_request'.message))
          => /\ http_response'.code = 400
             /\ chatbot_sessions' = chatbot_sessions
       /\ \A sid \in DOMAIN chatbot_sessions :
             (/\ http_request'.endpoint = "chat" /\ http_request'.session_id = sid
              /\ Phase(chatbot_sessions[sid]) = "COLLECTING_EMAIL"
              /\ http_request'.message # MissingField
              /\ ~IsBlank(http_request'.message)
              /\ ~IsEmailAddress(strip(http_request'.message)))
             => /\ http_response'.code = 200
                /\ http_response'.response = "ask valid email"
                /\ http_response'.status = "collecting_info"
                /\ Phase(chatbot_sessions'[sid]) = "COLLECTING_EMAIL"
      ]_vars

\* a blank message to a session that waits for an address has been refused
C15_Witness ==
    /\ http_request.endpoint = "chat"
    /\ http_request.message = MsgBlank
    /\ http_request.session_id \in DOMAIN chatbot_sessions
    /\ handled_in = "COLLECTING_EMAIL"
    /\ Phase(Session) = "COLLECTING_EMAIL"
    /\ http_response.code = 400

\* C12: only one chatbot is ever constructed for an identifier, and every
\* thread that is about to call process_message holds the chatbot that is
\* registered under the identifier of its request.
C12_GetOrCreateIsSerialized ==
    /\ unregistered = EmptyDict
    /\ \A t \in Threads :
          workers[t].pc = "process_message"
          => workers[t].chatbot = chatbot_sessions[workers[t].session_id].instance

(***************************************************************************)
(* The collaborators of a turn.                                            *)

\* the position of the first call of fn among the calls of the last request
FirstCall(fn) == FirstOf(external_calls, fn)

\* C21: a message handled in NORMAL invokes the knowledge search exactly once
\* and then the classifier exactly once; a message handled in
\* AWAITING_EMAIL_CONFIRMATION or in a COLLECTING_* phase invokes neither.
C21_OneClassificationPerNormalMessage ==
    HandledChat =>
        IF handled_in = "NORMAL"
        THEN /\ Count(external_calls, "search_knowledge_base") = 1
             /\ Count(external_calls, "analyze_with_gemini") = 1
             /\ FirstCall("search_knowledge_base") < FirstCall("analyze_with_gemini")
        ELSE /\ ~Invoked("search_knowledge_base")
             /\ ~Invoked("analyze_with_gemini")

\* the composer of the last request failed: the remote call raised, or its
\* response held no JSON object or a malformed one
ComposerFailed ==
    \E kind \in {"exception", "no_json", "invalid_json"} :
        Called("generate_intelligent_email", kind)

\* C22: when the composer fails in the details step, the email is the one
\* built from the original question and the slots ("Support Request: " and
\* the question as subject, the question as a paragraph), and the dispatcher
\* is still invoked with it; and no message ends the workflow out of
\* COLLECTING_DETAILS without the dispatcher having been invoked.
C22_ComposerFailureStillDispatches ==
    (HandledChat /\ handled_in = "COLLECTING_DETAILS") =>
        /\ ComposerFailed =>
              /\ Invoked("send_email_to_department")
              /\ Session.email_data["subject"] =
                     <<"Support Request: ">> \o Session.original_user_question
              /\ \E i \in 1..Len(Session.email_data["user_preview"].body) :
                     Session.email_data["user_preview"].body[i] =
                         Session.original_user_question
              /\ \A i \in 1..Len(mail_requests) :
                     mail_requests[i].subject = Session.email_data["subject"]
        /\ Phase(Session) # "COLLECTING_DETAILS" => Invoked("send_email_to_department")

\* a details step whose composer answered without JSON and whose email was
\* posted to the mail API
C22_Witness ==
    /\ HandledChat
    /\ handled_in = "COLLECTING_DETAILS"
    /\ Called("generate_intelligent_email", "no_json")
    /\ Len(mail_requests) = 1
    /\ Phase(Session) = "NORMAL"

\* C23: when the knowledge search fails, the turn goes on: the store write
\* follows, the classifier, unless that write raised, is invoked with the text
\* "No relevant knowledge base entries found." as its knowledge context, and a
\* turn that is answered leaves the session in AWAITING_EMAIL_CONFIRMATION.
C23_KnowledgeFailureDoesNotBlock ==
    (HandledChat /\ Called("search_knowledge_base", "exception")) =>
        /\ handled_in = "NORMAL"
        /\ Len(external_calls) >= 2
        /\ external_calls[2][1] = "save_to_chroma"
        /\ external_calls[2][2] # "exception" =>
              /\ Len(external_calls) >= 3
              /\ external_calls[3][1] = "analyze_with_gemini"
              /\ external_calls[3][3] = "No relevant knowledge base entries found."
        /\ http_response.code = 200 =>
              /\ Phase(Session) = "AWAITING_EMAIL_CONFIRMATION"
              /\ http_response.status = "awaiting_confirmation"

\* a turn whose knowledge search failed and that offered the forwarding
C23_Witness ==
    /\ HandledChat
    /\ Called("search_knowledge_base", "exception")
    /\ Invoked("analyze_with_gemini")
    /\ http_response.code = 200
    /\ Phase(Session) = "AWAITING_EMAIL_CONFIRMATION"

-----------------------------------------------------------------------------
(* DetailsSpec: the details step of process_workflow_step on the texts the  *)
(* controller can be handed in COLLECTING_DETAILS.                          *)

\* the longest run of whitespace before and after the text
MaxPadding == 1

RECURSIVE Paddings(_)
Paddings(n) ==
    IF n = 0 THEN {<<>>}
    ELSE Paddings(n - 1) \cup
         {<<c>> \o p : c \in Whitespace, p \in {q \in Paddings(n - 1) : Len(q) = n - 1}}

DetailsWords ==
    { <<"n","o","n","e">>, <<"N","o","n","e">>, <<"N","O","N","E">>,
      <<"n","/","a">>, <<"N","/","A">>, <<"n","o">>, <<"N","o">>, <<"N","O">>,
      <<"n","o","n","e","s">>, <<"n","o"," ","a">>, <<>> }

DetailsInputs ==
    {l \o w \o r : l \in Paddings(MaxPadding), w \in DetailsWords,
                   r \in Paddings(MaxPadding)}

\* a controller that a question, the confirmation, a name, an address and a
\* company have brought to COLLECTING_DETAILS
RECURSIVE AfterMessages(_, _)
AfterMessages(chatbots, messages) ==
    IF messages = <<>> THEN chatbots
    ELSE AfterMessages({process_message(cb, Head(messages), NoFailure).cb : cb \in chatbots},
                       Tail(messages))

DetailsChatbot ==
    CHOOSE cb \in AfterMessages({[NewChatbot(Uuid(1)) EXCEPT !.session_id = Client(1)]},
                                <<MsgSure, MsgSure, MsgSure, strip(MsgEmail), MsgSure>>) :
        TRUE

DetailsInit ==
    /\ \E cb \in {DetailsChatbot} : chatbot_sessions = (Client(1) :> cb)
    /\ workflow_calls = (Client(1) :> NoCalls)
    /\ uuid_counter = 1
    /\ \E user_input \in DetailsInputs :
          http_request = [endpoint |-> "process_message", session_id |-> Client(1),
                          message |-> user_input]
    /\ handled_in = "NO_SESSION"
    /\ http_response = [code |-> 0]
    /\ external_calls = <<>>
    /\ mail_requests = <<>>
    /\ workers = [t \in Threads |-> Idle]
    /\ unregistered = EmptyDict

\* process_message called with the text as it is
DetailsStep ==
    /\ handled_in = "NO_SESSION"
    /\ \E cb \in {chatbot_sessions[Client(1)]} :
       \E r \in {process_message(cb, http_request.message, NoFailure)} :
           /\ handled_in' = Phase(cb)
           /\ chatbot_sessions' = (Client(1) :> r.cb)
           /\ external_calls' = r.calls
           /\ mail_requests' = r.posted
           /\ http_response' = IF r.raised THEN ServerError
                               ELSE [code |-> 200, status |-> r.result.status]
    /\ UNCHANGED <<uuid_counter, http_request, workflow_calls, workers, unregistered>>

DetailsNext == DetailsStep

DetailsSpec == DetailsInit /\ [][DetailsNext]_vars

-----------------------------------------------------------------------------
(* The properties that need more than the HTTP requests of one client.      *)

\* C25: the chatbot registered under an identifier reports that identifier as
\* its session_id, in every state and also after a reset; the session_id that
\* POST /api/chat returns is the one the request supplied; and no two
\* registered chatbots report the same session_id.
C25_RegisteredUnderOwnIdentifier ==
    /\ \A k \in DOMAIN chatbot_sessions : chatbot_sessions[k].session_id = k
    /\ (HandledChat /\ http_response.code = 200)
       => http_response.session_id = http_request.session_id
    /\ \A a \in DOMAIN chatbot_sessions : \A b \in DOMAIN chatbot_sessions :
          a # b => chatbot_sessions[a].session_id # chatbot_sessions[b].session_id

-----------------------------------------------------------------------------
(* The properties of the workflow as a whole.                               *)

\* C26: the dispatcher is invoked only by a request before which the user,
\* since the classifier was last invoked and with no reset since, has given
\* an affirmative confirmation, then the name, then an address that matches
\* the pattern, then the company, and that itself gives the details.
C26_DispatchOnlyAfterConfirmedWorkflow ==
    (HandledChat /\ Invoked("send_email_to_department")) =>
        LET given == workflow_calls[http_request.session_id].given
        IN  /\ Len(given) >= 5
            /\ SubSeq(given, 1, 4) = <<"confirmation", "name", "email", "company">>
            /\ \A i \in 5..Len(given) : given[i] = "additional_details"
            /\ IsEmailAddress(Session.email_data["email"])
            /\ handled_in = "COLLECTING_DETAILS"

\* an email has been posted to the mail API
C26_Witness ==
    /\ HandledChat
    /\ Called("send_email_to_department", "ok")
    /\ Len(mail_requests) = 1
    /\ workflow_calls[http_request.session_id].given =
           <<"confirmation", "name", "email", "company", "additional_details">>

-----------------------------------------------------------------------------
(* RunsSpec: one client whose conversation is long enough for two runs of   *)
(* the workflow.  The classifier answers with an object of the expected     *)
(* shape and no collaborator fails, except the composer, whose failure      *)
(* gives the email built from the question and the slots.                   *)

MaxRunsTurns == 24

MsgEmail2 == <<"c","@","d",".","e">>

RunsMessages == {MsgSure, MsgEmail, MsgEmail2}

RunsOutcomes ==
    {[NoFailure EXCEPT !.classifier = [kind |-> "json", obj |-> GoodAnalysis(d[1], d[2])]] :
        d \in {<<"Billing", "High">>, <<"Sales", "Low">>}}

RunsChat ==
    /\ \E message_field \in RunsMessages : \E o \in RunsOutcomes :
          chat_within(MaxRunsTurns, message_field, Client(1), o)
    /\ UNCHANGED <<workers, unregistered>>

RunsNext == RunsChat

RunsSpec == Init /\ [][RunsNext]_vars

\* C27: whenever the composer is invoked, the name, address, company and
\* details in its prompt are the texts given to the run in progress and the
\* urgency is the one the classifier returned last; the request posted to the
\* mail API carries the address of this run as reply_to and the subject and
\* the email composed in this run.
C27_EmailUsesCurrentRun ==
    (HandledChat /\ Invoked("generate_intelligent_email")) =>
        LET prompt == external_calls[FirstCall("generate_intelligent_email")][3]
            run    == workflow_calls[http_request.session_id]
        IN  /\ DOMAIN run.values = Slots
            /\ prompt.name = run.values["name"]
            /\ prompt.email = run.values["email"]
            /\ prompt.company = run.values["company"]
            /\ prompt.additional_details = run.values["additional_details"]
            /\ prompt.importance = run.urgency
            /\ \A i \in 1..Len(mail_requests) :
                  /\ mail_requests[i].reply_to = run.values["email"]
                  /\ mail_requests[i].html.body[Len(mail_requests[i].html.body)]
                         = run.values["company"]
                  /\ \E j \in 1..Len(mail_requests[i].html.body) :
                         mail_requests[i].html.body[j] =
                             <<"Additional details: ">> \o run.values["additional_details"]

\* the second run of a session has dispatched an email, with a name, an
\* address and an urgency that differ from those of the first run
C27_Witness ==
    /\ HandledChat
    /\ Len(mail_requests) = 1
    /\ Len(Session.chat_history) = 24
    /\ workflow_calls[http_request.session_id].values["name"] = MsgEmail2
    /\ workflow_calls[http_request.session_id].values["email"] = MsgEmail2
    /\ workflow_calls[http_request.session_id].urgency = "Low"

-----------------------------------------------------------------------------
(* InterleavedSpec: two request threads handle /api/chat requests of one    *)
(* client session, and a thread can be suspended wherever process_message   *)
(* waits for a collaborator: the knowledge search, the store write, the     *)
(* classifier, the composer's remote call, the POST to the mail API.        *)
(* What lies between two such calls is one step.  get_chatbot is one step   *)
(* here; its own interleavings are those of ConcurrentSpec.  The classifier *)
(* answers Billing/High, the composer fails and the other collaborators     *)
(* succeed.                                                                 *)

MaxInterleavedTurns == 12

InterleavedMessages == {MsgSure, MsgEmail}

InterleavedOutcome ==
    [NoFailure EXCEPT !.classifier = [kind |-> "json", obj |-> GoodAnalysis("Billing", "High")]]

\* chat lines 58-74: a request arrives at thread t, which gets the chatbot
BeginRequest(t) ==
    /\ workers[t].pc = "idle"
    /\ \E m \in InterleavedMessages :
          LET session_id == Client(1)
              is_new     == session_id \notin DOMAIN chatbot_sessions
              chatbot    == get_chatbot(session_id, Uuid(uuid_counter + 1))
          IN  /\ Len(chatbot.chat_history) + 2 <= MaxInterleavedTurns
              /\ chatbot_sessions' = (session_id :> chatbot) @@ chatbot_sessions
              /\ workflow_calls' = (session_id :> Get(workflow_calls, session_id, NoCalls))
                                      @@ workflow_calls
              /\ uuid_counter' = uuid_counter + (IF is_new THEN 1 ELSE 0)
              /\ workers' = [workers EXCEPT ![t] =
                               [pc |-> "process_message", session_id |-> session_id,
                                message |-> strip(m)]]
    /\ UNCHANGED <<http_request, http_response, external_calls, handled_in,
                   mail_requests, unregistered>>

\* process_message from line 612 to its first collaborator call: the whole
\* of it for the confirmation and for the name, email and company steps
EnterProcessMessage(t) ==
    /\ workers[t].pc = "process_message"
    /\ LET session_id == workers[t].session_id
           cb         == chatbot_sessions[session_id]
           message    == workers[t].message
           before     == workflow_calls[session_id]
       IN  /\ http_request' = [endpoint |-> "chat", session_id |-> session_id,
                               message |-> message]
           /\ handled_in' = Phase(cb)
           /\ external_calls' = <<>>
           /\ IF Phase(cb) = "COLLECTING_DETAILS"
              THEN /\ chatbot_sessions' =
                         [chatbot_sessions EXCEPT ![session_id] =
                             SetSlot(cb, "additional_details", details_value(message))]
                   /\ workflow_calls' =
                         [workflow_calls EXCEPT ![session_id] =
                             count_calls(before, cb, message, <<>>)]
                   /\ workers' = [workers EXCEPT ![t].pc = "generate_content"]
                   /\ UNCHANGED <<http_response, mail_requests>>
              ELSE IF Phase(cb) = "NORMAL"
              THEN /\ workers' = [workers EXCEPT ![t].pc = "search_knowledge_base"]
                   /\ UNCHANGED <<chatbot_sessions, workflow_calls, http_response,
                                  mail_requests>>
              ELSE \E r \in {process_message(cb, message, InterleavedOutcome)} :
                       /\ chatbot_sessions' = [chatbot_sessions EXCEPT ![session_id] = r.cb]
                       /\ workflow_calls' =
                             [workflow_calls EXCEPT ![session_id] =
                                 count_calls(before, cb, message, r.calls)]
                       /\ http_response' = chat_response(r)
                       /\ mail_requests' =
                             IF Phase(cb) = "AWAITING_EMAIL_CONFIRMATION"
                                /\ is_affirmative(message)
                             THEN <<>> ELSE mail_requests
                       /\ workers' = [workers EXCEPT ![t] = Idle]
    /\ UNCHANGED <<uuid_counter, unregistered>>

\* lines 709-731: the search has returned; the user turn is appended, the
\* store written and the classifier called
AfterSearch(t) ==
    /\ workers[t].pc = "search_knowledge_base"
    /\ LET session_id == workers[t].session_id
           cb         == chatbot_sessions[session_id]
       IN  /\ chatbot_sessions' =
                 [chatbot_sessions EXCEPT ![session_id] =
                     [cb EXCEPT !.chat_history = Append(cb.chat_history, "user")]]
           /\ external_calls' = <<Call("search_knowledge_base", InterleavedOutcome.kb),
                                  Call("save_to_chroma", InterleavedOutcome.save_user)>>
    /\ workers' = [workers EXCEPT ![t].pc = "analyze_with_gemini"]
    /\ UNCHANGED <<uuid_counter, unregistered, http_request, http_response,
                   workflow_calls, handled_in, mail_requests>>

\* lines 734-774: the classifier has returned; its result is stored, the
\* offer made and the assistant turn appended
AfterAnalyze(t) ==
    /\ workers[t].pc = "analyze_with_gemini"
    /\ LET session_id == workers[t].session_id
           cb         == chatbot_sessions[session_id]
           analysis   == analyze_with_gemini(InterleavedOutcome.classifier)
           cb1 == [cb EXCEPT !.identified_department = analysis["department"],
                             !.department_confidence = analysis["confidence"],
                             !.original_user_question = workers[t].message,
                             !.email_data = Put(cb.email_data, "importance",
                                                Get(analysis, "importance", "Medium")),
                             !.email_confirmation_pending = TRUE,
                             !.chat_history = Append(cb.chat_history, "assistant")]
       IN  /\ chatbot_sessions' = [chatbot_sessions EXCEPT ![session_id] = cb1]
           /\ workflow_calls' =
                 [workflow_calls EXCEPT ![session_id].given = <<>>,
                                        ![session_id].urgency =
                                            Get(analysis, "importance", "Medium")]
           /\ external_calls' =
                 <<CallReturning("analyze_with_gemini", InterleavedOutcome.classifier.kind,
                                 knowledge_context(search_knowledge_base(InterleavedOutcome.kb)),
                                 analysis),
                   Call("save_to_chroma", InterleavedOutcome.save_assistant)>>
           /\ http_response' =
                 [code |-> 200, success |-> TRUE, status |-> "awaiting_confirmation",
                  session_id |-> cb1.session_id, department |-> cb1.identified_department]
    /\ workers' = [workers EXCEPT ![t] = Idle]
    /\ UNCHANGED <<uuid_counter, unregistered, http_request, handled_in, mail_requests>>

\* lines 266-341 and 524-555: the composer's remote call has returned; the
\* email is built and stored, and the request is posted to the mail API
AfterCompose(t) ==
    /\ workers[t].pc = "generate_content"
    /\ \E session_id \in {workers[t].session_id} :
       \E gen \in {generate_intelligent_email(chatbot_sessions[session_id],
                                              InterleavedOutcome.composer)} :
       \E send \in {send_email_to_department(gen.cb, gen.html,
                                             InterleavedOutcome.resend_key,
                                             InterleavedOutcome.post)} :
           /\ chatbot_sessions' = [chatbot_sessions EXCEPT ![session_id] = gen.cb]
           /\ workflow_calls' =
                 [workflow_calls EXCEPT ![session_id].composer = @ + 1,
                                        ![session_id].dispatcher = @ + 1]
           /\ external_calls' = gen.calls \o send.calls
           /\ mail_requests' = mail_requests \o send.posted
           /\ workers' = [workers EXCEPT ![t] =
                            [pc |-> "post", session_id |-> session_id,
                             message |-> workers[t].message, email_sent |-> send.sent]]
    /\ UNCHANGED <<uuid_counter, unregistered, http_request, http_response, handled_in>>

\* lines 557-567, 192-205 and 615-640: the POST has returned; the workflow
\* is left and the exchange appended
AfterPost(t) ==
    /\ workers[t].pc = "post"
    /\ LET session_id == workers[t].session_id
           cb         == chatbot_sessions[session_id]
           cb1        == AppendExchange([cb EXCEPT !.email_workflow_active = FALSE])
       IN  /\ chatbot_sessions' = [chatbot_sessions EXCEPT ![session_id] = cb1]
           /\ http_response' =
                 [code |-> 200, success |-> TRUE, status |-> "email_complete",
                  session_id |-> cb1.session_id, department |-> cb1.identified_department,
                  email_sent |-> workers[t].email_sent]
    /\ workers' = [workers EXCEPT ![t] = Idle]
    /\ UNCHANGED <<uuid_counter, unregistered, http_request, external_calls,
                   workflow_calls, handled_in, mail_requests>>

InterleavedNext ==
    \E t \in Threads :
        \/ BeginRequest(t)
        \/ EnterProcessMessage(t)
        \/ AfterSearch(t)
        \/ AfterAnalyze(t)
        \/ AfterCompose(t)
        \/ AfterPost(t)

InterleavedSpec == Init /\ [][InterleavedNext]_vars

\* C28: with two requests of a session in progress at the same time, a
\* confirmed workflow still invokes the composer and the dispatcher at most
\* once and posts at most one email, and what the workflow has been given
\* since the classification is the confirmation and then each slot once, in
\* order: no step is applied twice and none is skipped.
C28_ConcurrentRequestsSerialized ==
    \A sid \in DOMAIN workflow_calls :
        LET run   == workflow_calls[sid]
            steps == <<"confirmation", "name", "email", "company", "additional_details">>
        IN  /\ run.composer <= 1
            /\ run.dispatcher <= 1
            /\ Len(mail_requests) <= 1
            /\ Len(run.given) <= Len(steps)
            /\ run.given = SubSeq(steps, 1, Len(run.given))

-----------------------------------------------------------------------------
(* The properties of a failing turn and of the phase flags.                 *)

\* C29: a /api/chat request to a registered session that is answered with
\* code 500 leaves the session's turn log, phase flags, slots, department and
\* confidence as they were before the request.
C29_FailingTurnChangesNothing ==
    [][\A sid \in DOMAIN chatbot_sessions :
          (http_request'.endpoint = "chat" /\ http_request'.session_id = sid
             /\ http_response'.code = 500)
          => /\ chatbot_sessions'[sid].chat_history = chatbot_sessions[sid].chat_history
             /\ chatbot_sessions'[sid].email_workflow_active =
                    chatbot_sessions[sid].email_workflow_active
             /\ chatbot_sessions'[sid].email_confirmation_pending =
                    chatbot_sessions[sid].email_confirmation_pending
             /\ chatbot_sessions'[sid].current_step = chatbot_sessions[sid].current_step
             /\ chatbot_sessions'[sid].email_data = chatbot_sessions[sid].email_data
             /\ chatbot_sessions'[sid].identified_department =
                    chatbot_sessions[sid].identified_department
             /\ chatbot_sessions'[sid].department_confidence =
                    chatbot_sessions[sid].department_confidence]_vars

\* C30: in no session are email_workflow_active and
\* email_confirmation_pending both true, whatever messages and resets have
\* been handled one after the other.
C30_FlagsNeverBothTrue ==
    \A sid \in DOMAIN chatbot_sessions :
        ~(chatbot_sessions[sid].email_workflow_active
          /\ chatbot_sessions[sid].email_confirmation_pending)

\* the confirmation has started the workflow and closed the offer
C30_Witness ==
    /\ HandledChat
    /\ handled_in = "AWAITING_EMAIL_CONFIRMATION"
    /\ Session.email_workflow_active
    /\ ~Session.email_confirmation_pending

\* C31: in every session current_step is one of 0, 1, 2, 3; while the
\* workflow is active it is the position in workflow_steps of the slot that
\* comes next after what the user has given (the name after the
\* confirmation, then the address, the company, the details); and no reply
\* is the "Something went wrong" of the last branch of process_workflow_step.
C31_StepCounterInBounds ==
    /\ \A sid \in DOMAIN chatbot_sessions :
          LET cb    == chatbot_sessions[sid]
              given == workflow_calls[sid].given
          IN  /\ cb.current_step \in {0, 1, 2, 3}
              /\ cb.email_workflow_active =>
                    /\ Len(given) >= 1
                    /\ given[1] = "confirmation"
                    /\ workflow_steps[cb.current_step + 1] =
                           IF Len(given) >= 4 THEN "additional_details"
                           ELSE <<"name", "email", "company">>[Len(given)]
    /\ (HandledChat /\ http_response.code = 200)
       => http_response.response # "something went wrong"

\* the company has been given and the counter stands at the last step
C31_Witness ==
    /\ HandledChat
    /\ handled_in = "COLLECTING_COMPANY"
    /\ Session.email_workflow_active
    /\ Session.current_step = 3
====
